---- MODULE Spec2Model ----
(***************************************************************************)
(* Model of the OCR service's correction dictionary, feedback store and    *)
(* active-learning loop.                                                   *)
(*                                                                         *)
(* A running service holds four AutoCorrectionSystem objects, each with    *)
(* its own in-memory corrections_db loaded once at construction, and two   *)
(* FeedbackCollector objects, each with its own in-memory feedback_data.   *)
(* All of them read and rewrite the same two files (corrections.json and   *)
(* feedback.json).                                                         *)
(*                                                                         *)
(* Strings are short ASCII tokens.  The Cyrillic seed keys are written in  *)
(* transliteration; none of them shares a character with the tokens the    *)
(* model feeds in, as in the source.  Confidences are tenths (10 = 1.0).   *)
(***************************************************************************)
EXTENDS Integers, Sequences, FiniteSets, TLC

VARIABLES
    corrections_db,     \* AutoCorrectionSystem.corrections_db of each handle
    corrections_file,   \* contents of settings.CORRECTIONS_DB
    feedback_data,      \* FeedbackCollector.feedback_data of each handle
    feedback_file,      \* contents of feedback.json
    clock,              \* datetime.now() in whole seconds
    disk,               \* corrections.json as another process finds it on disk
    save_pc,            \* where a save_corrections call in progress stands
    loaded,             \* what the last load_corrections of another process returned
    similarity_threshold,   \* AutoCorrectionSystem.similarity_threshold, from the settings
    batch,              \* a batch_process call: its files, its position, its lists
    last_call,          \* a call followed on its own: its inputs and how it ended
    phase1              \* a word going through the digit/letter step of correct_text

io_vars == <<disk, save_pc, loaded>>
aux_vars == <<similarity_threshold, batch, last_call, phase1>>
vars == <<corrections_db, corrections_file, feedback_data, feedback_file, clock, io_vars,
          aux_vars>>

(***************************************************************************)
(* Bounds of the model.                                                    *)
(***************************************************************************)
MaxFeedback == 2        \* records of all kinds held by one FeedbackCollector
MaxClock == 1           \* seconds the clock may advance

\* the objects constructed at import time
CorrectorHandles == {"pipeline", "pipeline_al", "routes", "feedback_al"}
CollectorHandles == {"pipeline_al", "feedback_al"}

\* inputs
FeedbackOriginals == {"a"}          \* 'original' of submitted correction feedback
FeedbackCorrected == {"a", "b"}     \* 'corrected' of submitted correction feedback
ConfirmOriginals == {"b"}           \* 'original' of confirmed corrections
ConfirmCorrected == {"b", "c"}      \* 'corrected' of confirmed corrections
Tokens == {"A", "I"}                \* tokens of recognized text
Confidences == {0, 10}
DocTypes == {"cert"}
Ratings == {8}
\* document_id is stored and never read; the n-th correction submitted through
\* the feedback endpoint names a document of its own
DocOf(n) == <<"doc", n>>

min_occurrences_for_auto_update == 2
min_confidence_for_auto_update == 7
SIMILARITY_THRESHOLD == 80

(***************************************************************************)
(* Dictionaries: functions from a finite set of keys to strings.           *)
(***************************************************************************)
DictPut(db, k, v) == [x \in (DOMAIN db) \cup {k} |-> IF x = k THEN v ELSE db[x]]

default_corrections ==
    [k \in {"Markutal'", "O_cyr", "I", "Z_cyr", "B_cyr", "V_cyr"} |->
        CASE k = "Markutal'" -> "Mariupol'"
          [] k = "O_cyr" -> "0"
          [] k = "I" -> "1"
          [] k = "Z_cyr" -> "3"
          [] k = "B_cyr" -> "6"
          [] k = "V_cyr" -> "8"]

\* json.dump followed by json.load of a str -> str mapping: keys and values
\* are strings already, so the mapping read back has the same pairs
load_corrections(file) == [k \in DOMAIN file |-> file[k]]

\* learn_from_mistake without its guard
learn_from_mistake_unguarded(db, original, corrected) == DictPut(db, original, corrected)

\* a learn that takes a repeated pair as its withdrawal
learn_from_mistake_toggle(db, original, corrected) ==
    IF original = corrected THEN db
    ELSE IF original \in DOMAIN db /\ db[original] = corrected
         THEN [x \in (DOMAIN db) \ {original} |-> db[x]]
         ELSE DictPut(db, original, corrected)

\* learn_from_mistake on an in-memory dictionary; the result is also what
\* save_corrections writes when the guard holds
learn_from_mistake(db, original, corrected) ==
    IF original # corrected THEN DictPut(db, original, corrected) ELSE db

\* does learn_from_mistake reach save_corrections
learn_saves(original, corrected) == original # corrected

add_correction(db, original, corrected) == learn_from_mistake(db, original, corrected)

(***************************************************************************)
(* Correction engine, phase 2 (dictionary lookup).  The tokens fed in here *)
(* hold no Cyrillic letter, so phase 1 leaves them alone; phase 1 itself   *)
(* is restore_digits below.                                                *)
(***************************************************************************)
Lower(s) == IF s = "A" THEN "a" ELSE IF s = "I" THEN "i" ELSE IF s = "I1" THEN "i1" ELSE s

\* SequenceMatcher ratio in percent, 2 * matches / (len1 + len2); the model's
\* strings agree after lower-casing, or are "i1" against one of its two
\* characters (2 * 1 / 3), or share no character
calculate_similarity(str1, str2) ==
    IF Lower(str1) = Lower(str2) THEN 100
    ELSE IF {Lower(str1), Lower(str2)} \in {{"i", "i1"}, {"1", "i1"}} THEN 66
    ELSE 0

\* the keys reaching the best similarity; the source keeps the first of them
\* in dictionary order, and on the model's strings there is at most one
find_similar_correction(db, text) ==
    LET ok == {k \in DOMAIN db : calculate_similarity(text, k) >= similarity_threshold}
    IN  {k \in ok : \A k2 \in ok : calculate_similarity(text, k2) <= calculate_similarity(text, k)}

NoSuggestion == [method |-> "none"]

suggest_correction(db, text) ==
    IF text \in DOMAIN db
    THEN [original |-> text, corrected |-> db[text], confidence |-> 10, method |-> "exact_match"]
    ELSE IF find_similar_correction(db, text) # {}
         THEN LET k == CHOOSE x \in find_similar_correction(db, text) : TRUE
              IN  [original |-> text, corrected |-> db[k],
                   confidence |-> calculate_similarity(text, k) \div 10,
                   method |-> "similarity_match"]
         ELSE NoSuggestion

\* str.replace(original, corrected, 1) on a text given as its tokens; in the
\* model's texts no token occurs inside a token that stands before it
RECURSIVE ReplaceFirst(_, _, _)
ReplaceFirst(text, original, corrected) ==
    IF text = <<>> THEN <<>>
    ELSE IF Head(text) = original THEN <<corrected>> \o Tail(text)
    ELSE <<Head(text)>> \o ReplaceFirst(Tail(text), original, corrected)

Contains(text, w) == \E i \in 1..Len(text) : text[i] = w

\* a loop that keeps every similarity match it applies as a dictionary entry
RECURSIVE correct_words_learning(_, _, _, _)
correct_words_learning(db, words, corrected_text, applied) ==
    IF words = <<>> THEN [text |-> corrected_text, corrections |-> applied, db |-> db]
    ELSE LET s == suggest_correction(db, Head(words))
         IN  IF s.method # "none" /\ Contains(corrected_text, s.original)
             THEN correct_words_learning(
                      IF s.method = "similarity_match"
                      THEN DictPut(db, s.original, s.corrected) ELSE db,
                      Tail(words),
                      ReplaceFirst(corrected_text, s.original, s.corrected),
                      Append(applied, [from |-> s.original, to |-> s.corrected,
                                       confidence |-> s.confidence, method |-> s.method]))
             ELSE correct_words_learning(db, Tail(words), corrected_text, applied)

\* the loop of correct_text over the words found before the loop starts; db is
\* self.corrections_db, which the loop reads and hands back as it found it
RECURSIVE correct_words(_, _, _, _)
correct_words(db, words, corrected_text, applied) ==
    IF words = <<>> THEN [text |-> corrected_text, corrections |-> applied, db |-> db]
    ELSE LET s == suggest_correction(db, Head(words))
         IN  IF s.method # "none" /\ Contains(corrected_text, s.original)
             THEN correct_words(db, Tail(words),
                                ReplaceFirst(corrected_text, s.original, s.corrected),
                                Append(applied, [from |-> s.original, to |-> s.corrected,
                                                 confidence |-> s.confidence, method |-> s.method]))
             ELSE correct_words(db, Tail(words), corrected_text, applied)

correct_text(db, text) == correct_words(db, text, text, <<>>)

(***************************************************************************)
(* Feedback store.                                                         *)
(***************************************************************************)
\* The isoformat stamps last_updated and applied_at are written and never read
\* by the service; the model keeps the second a record was made in (its
\* timestamp, which is also part of its id) and leaves those two out.
EmptyFeedback ==
    [corrections |-> <<>>, document_types |-> <<>>, quality_ratings |-> <<>>,
     statistics |-> [total_feedback |-> 0, corrections_count |-> 0]]

\* json.load of what json.dump wrote: strings, numbers, booleans and lists
\* come back as they were; a missing file gives the empty structure
_load_feedback(file) ==
    [corrections |-> [i \in 1..Len(file.corrections) |-> file.corrections[i]],
     document_types |-> [i \in 1..Len(file.document_types) |-> file.document_types[i]],
     quality_ratings |-> [i \in 1..Len(file.quality_ratings) |-> file.quality_ratings[i]],
     statistics |-> file.statistics]

\* _save_feedback dumps the whole structure: the result is the new file
_save_feedback(fd, now) == fd

add_correction_feedback(fd, original, corrected, document_id, confidence, now) ==
    LET feedback_entry ==
            [id |-> <<"feedback", now, Len(fd.corrections)>>,
             original |-> original, corrected |-> corrected,
             document_id |-> document_id, confidence |-> confidence,
             timestamp |-> now, applied |-> FALSE]
    IN  _save_feedback(
            [fd EXCEPT !.corrections = Append(@, feedback_entry),
                       !.statistics.total_feedback = @ + 1,
                       !.statistics.corrections_count = @ + 1], now)

add_quality_rating(fd, document_id, rating, now) ==
    LET feedback_entry ==
            [id |-> <<"quality", now, Len(fd.quality_ratings)>>,
             document_id |-> document_id, rating |-> rating, timestamp |-> now]
    IN  _save_feedback(
            [fd EXCEPT !.quality_ratings = Append(@, feedback_entry),
                       !.statistics.total_feedback = @ + 1], now)

add_document_type_feedback(fd, document_id, predicted_type, actual_type, now) ==
    LET feedback_entry ==
            [id |-> <<"doctype", now, Len(fd.document_types)>>,
             document_id |-> document_id, predicted_type |-> predicted_type,
             actual_type |-> actual_type, correct |-> (predicted_type = actual_type),
             timestamp |-> now]
    IN  _save_feedback(
            [fd EXCEPT !.document_types = Append(@, feedback_entry),
                       !.statistics.total_feedback = @ + 1], now)

\* the keys of correction_groups in insertion order: the (original, corrected)
\* pairs of the unapplied records, each at its first occurrence
RECURSIVE group_keys(_, _)
group_keys(corrections, keys) ==
    IF corrections = <<>> THEN keys
    ELSE LET c == Head(corrections)
             key == <<c.original, c.corrected>>
         IN  IF c.applied \/ (\E i \in 1..Len(keys) : keys[i] = key)
             THEN group_keys(Tail(corrections), keys)
             ELSE group_keys(Tail(corrections), Append(keys, key))

RECURSIVE SumConfidence(_)
SumConfidence(occurrences) ==
    IF occurrences = <<>> THEN 0
    ELSE Head(occurrences).confidence + SumConfidence(Tail(occurrences))

group_occurrences(corrections, key) ==
    SelectSeq(corrections, LAMBDA c : ~c.applied /\ c.original = key[1] /\ c.corrected = key[2])

\* total_confidence / count is computed in doubles. For confidences 0.0, 0.6,
\* 0.7 and 1.0 and groups of up to five records the double quotient compares
\* with a threshold of 0.0, 0.7 or 1.0 as the exact mean does, with one
\* exception: 0.7 + 0.7 + 0.7 is 2.0999999999999996 and a third of it is
\* 0.6999999999999998, below the double 0.7. avg_rounding is -1 for that
\* group and 0 for every other.
avg_rounding(occurrences) ==
    IF Len(occurrences) = 3 /\ \A i \in 1..3 : occurrences[i].confidence = 7
    THEN -1 ELSE 0

\* one group as a candidate; avg_confidence is total_confidence / occurrences,
\* kept as the exact total (in tenths) and the rounding of the quotient
candidate_of(corrections, key) ==
    LET occ == group_occurrences(corrections, key)
    IN  [original |-> key[1], corrected |-> key[2], occurrences |-> Len(occ),
         total_confidence |-> SumConfidence(occ),
         avg_rounding |-> avg_rounding(occ),
         feedback_ids |-> [i \in 1..Len(occ) |-> occ[i].id]]

\* the filter with the occurrence threshold ignored
passes_single(c, min_confidence, min_occurrences) ==
    c.occurrences >= 1 /\ c.total_confidence >= min_confidence * c.occurrences

\* count >= min_occurrences and avg_confidence >= min_confidence
passes(c, min_confidence, min_occurrences) ==
    /\ c.occurrences >= min_occurrences
    /\ \/ c.total_confidence > min_confidence * c.occurrences
       \/ /\ c.total_confidence = min_confidence * c.occurrences
          /\ c.avg_rounding >= 0

\* x sorts strictly before y under key (occurrences, avg_confidence), reverse=True
sorts_before(x, y) ==
    \/ x.occurrences > y.occurrences
    \/ /\ x.occurrences = y.occurrences
       /\ \/ x.total_confidence * y.occurrences > y.total_confidence * x.occurrences
          \/ /\ x.total_confidence * y.occurrences = y.total_confidence * x.occurrences
             /\ x.avg_rounding > y.avg_rounding

\* list.sort is stable: x goes after every element it does not sort before
RECURSIVE sort_insert(_, _)
sort_insert(sorted, x) ==
    IF sorted = <<>> THEN <<x>>
    ELSE IF sorts_before(x, Head(sorted)) THEN <<x>> \o sorted
    ELSE <<Head(sorted)>> \o sort_insert(Tail(sorted), x)

\* the candidates left in the order of their groups
sort_candidates_unsorted(candidates, sorted) == sorted \o candidates

RECURSIVE sort_candidates(_, _)
sort_candidates(candidates, sorted) ==
    IF candidates = <<>> THEN sorted
    ELSE sort_candidates(Tail(candidates), sort_insert(sorted, Head(candidates)))

get_unapplied_corrections(fd, min_confidence, min_occurrences) ==
    LET keys == group_keys(fd.corrections, <<>>)
        groups == [i \in 1..Len(keys) |-> candidate_of(fd.corrections, keys[i])]
        candidates == SelectSeq(groups, LAMBDA c : passes(c, min_confidence, min_occurrences))
    IN  sort_candidates(candidates, <<>>)

InSeq(x, s) == \E i \in 1..Len(s) : s[i] = x

\* marking that stops after the first id
mark_corrections_applied_first(fd, feedback_ids, now) ==
    _save_feedback(
        [fd EXCEPT !.corrections =
            [i \in 1..Len(@) |->
                IF feedback_ids # <<>> /\ @[i].id = Head(feedback_ids)
                THEN [@[i] EXCEPT !.applied = TRUE]
                ELSE @[i]]], now)

mark_corrections_applied(fd, feedback_ids, now) ==
    _save_feedback(
        [fd EXCEPT !.corrections =
            [i \in 1..Len(@) |->
                IF InSeq(@[i].id, feedback_ids)
                THEN [@[i] EXCEPT !.applied = TRUE]
                ELSE @[i]]], now)

(***************************************************************************)
(* Active learning.                                                        *)
(***************************************************************************)
\* a loop that also marks the candidates it skips
RECURSIVE auto_update_loop_marking_skipped(_, _, _, _)
auto_update_loop_marking_skipped(candidates, db, ids, saved) ==
    IF candidates = <<>> THEN [db |-> db, ids |-> ids, saved |-> saved]
    ELSE LET c == Head(candidates)
         IN  IF c.original \notin DOMAIN db
             THEN auto_update_loop_marking_skipped(Tail(candidates),
                                   add_correction(db, c.original, c.corrected),
                                   ids \o c.feedback_ids,
                                   saved \/ learn_saves(c.original, c.corrected))
             ELSE auto_update_loop_marking_skipped(Tail(candidates), db,
                                                   ids \o c.feedback_ids, saved)

\* a loop that stops after the first candidate it adds
RECURSIVE auto_update_loop_first_only(_, _, _, _)
auto_update_loop_first_only(candidates, db, ids, saved) ==
    IF candidates = <<>> THEN [db |-> db, ids |-> ids, saved |-> saved]
    ELSE LET c == Head(candidates)
         IN  IF c.original \notin DOMAIN db
             THEN [db |-> add_correction(db, c.original, c.corrected),
                   ids |-> ids \o c.feedback_ids,
                   saved |-> saved \/ learn_saves(c.original, c.corrected)]
             ELSE auto_update_loop_first_only(Tail(candidates), db, ids, saved)

\* a loop without the check of line 110: every candidate is added
RECURSIVE auto_update_loop_overwriting(_, _, _, _)
auto_update_loop_overwriting(candidates, db, ids, saved) ==
    IF candidates = <<>> THEN [db |-> db, ids |-> ids, saved |-> saved]
    ELSE LET c == Head(candidates)
         IN  auto_update_loop_overwriting(Tail(candidates),
                                          add_correction(db, c.original, c.corrected),
                                          ids \o c.feedback_ids,
                                          saved \/ learn_saves(c.original, c.corrected))

\* the for loop of _auto_update_corrections: db is the dictionary so far, ids
\* the feedback_ids_to_mark so far, saved whether save_corrections has run
RECURSIVE auto_update_loop(_, _, _, _)
auto_update_loop(candidates, db, ids, saved) ==
    IF candidates = <<>> THEN [db |-> db, ids |-> ids, saved |-> saved]
    ELSE LET c == Head(candidates)
         IN  IF c.original \notin DOMAIN db
             THEN auto_update_loop(Tail(candidates),
                                   add_correction(db, c.original, c.corrected),
                                   ids \o c.feedback_ids,
                                   saved \/ learn_saves(c.original, c.corrected))
             ELSE auto_update_loop(Tail(candidates), db, ids, saved)

\* the result: the collector's feedback_data, the corrector's corrections_db,
\* and whether each of the two files was rewritten
_auto_update_corrections(fd, db, now) ==
    LET candidates == get_unapplied_corrections(fd, min_confidence_for_auto_update,
                                                min_occurrences_for_auto_update)
        r == auto_update_loop(candidates, db, <<>>, FALSE)
    IN  [fd |-> IF r.ids # <<>> THEN mark_corrections_applied(fd, r.ids, now) ELSE fd,
         db |-> r.db,
         dict_saved |-> r.saved,
         feedback_saved |-> (r.ids # <<>>)]

(***************************************************************************)
(* The service: construction, endpoints, the document pipeline.            *)
(***************************************************************************)
\* records of all kinds in one feedback_data
TotalRecords(fd) == Len(fd.corrections) + Len(fd.quality_ratings) + Len(fd.document_types)

AL == "feedback_al"     \* feedback_routes.active_learning: collector and corrector
PL == "pipeline_al"     \* routes.pipeline.active_learning: collector and corrector

\* corrections.json on disk: the mapping being dumped, how many of its entries
\* have reached the disk, and whether the dump is complete
WholeFile(db) == [content |-> db, flushed |-> Cardinality(DOMAIN db), closed |-> TRUE]
EmptyDict == [k \in {} |-> ""]
NoLoad == [done |-> FALSE, result |-> EmptyDict, before |-> EmptyDict, after |-> EmptyDict]

\* no batch_process call, no failing write, no word in the digit/letter step
NoBatch == [status |-> "none"]
NoCall == [op |-> "none"]
NoWord == [status |-> "none"]

\* first start: corrections.json is absent, the first AutoCorrectionSystem
\* writes the default entries and the others load them; feedback.json is absent
Init ==
    /\ corrections_file = default_corrections
    /\ corrections_db = [h \in CorrectorHandles |-> load_corrections(default_corrections)]
    /\ feedback_file = EmptyFeedback
    /\ feedback_data = [h \in CollectorHandles |-> _load_feedback(EmptyFeedback)]
    /\ clock = 0
    /\ disk = WholeFile(default_corrections)
    /\ save_pc = "idle"
    /\ loaded = NoLoad
    /\ similarity_threshold = SIMILARITY_THRESHOLD
    /\ batch = NoBatch
    /\ last_call = NoCall
    /\ phase1 = NoWord

\* the service is stopped and started again: every object is constructed anew
\* from the two files
Restart ==
    /\ corrections_db' = [h \in CorrectorHandles |-> load_corrections(corrections_file)]
    /\ feedback_data' = [h \in CollectorHandles |-> _load_feedback(feedback_file)]
    /\ UNCHANGED <<corrections_file, feedback_file, clock, io_vars, aux_vars>>

Tick ==
    /\ clock < MaxClock
    /\ clock' = clock + 1
    /\ UNCHANGED <<corrections_db, corrections_file, feedback_data, feedback_file, io_vars, aux_vars>>

\* a process_feedback that appends the correction and leaves autoUpdate to a
\* later call
submit_correction_feedback_lazy ==
    \E original \in FeedbackOriginals, corrected \in FeedbackCorrected,
       confidence \in Confidences :
        /\ TotalRecords(feedback_data[AL]) < MaxFeedback
        /\ LET added == add_correction_feedback(feedback_data[AL], original, corrected,
                                                DocOf(Len(feedback_data[AL].corrections)),
                                                confidence, clock)
           IN  /\ feedback_data' = [feedback_data EXCEPT ![AL] = added]
               /\ feedback_file' = added
        /\ UNCHANGED <<corrections_db, corrections_file, clock, io_vars, aux_vars>>

\* process_feedback with a payload holding the 'correction' key
submit_correction_feedback ==
    \E original \in FeedbackOriginals, corrected \in FeedbackCorrected,
       confidence \in Confidences :
        /\ TotalRecords(feedback_data[AL]) < MaxFeedback
        /\ LET added == add_correction_feedback(feedback_data[AL], original, corrected,
                                                DocOf(Len(feedback_data[AL].corrections)),
                                                confidence, clock)
               r == _auto_update_corrections(added, corrections_db[AL], clock)
           IN  /\ feedback_data' = [feedback_data EXCEPT ![AL] = r.fd]
               /\ feedback_file' = r.fd
               /\ corrections_db' = [corrections_db EXCEPT ![AL] = r.db]
               /\ corrections_file' = IF r.dict_saved THEN r.db ELSE corrections_file
        /\ UNCHANGED <<clock, io_vars, aux_vars>>

\* process_feedback with a payload holding the 'quality' key
submit_quality_feedback ==
    \E rating \in Ratings :
        /\ TotalRecords(feedback_data[AL]) < MaxFeedback
        /\ LET added == add_quality_rating(feedback_data[AL], "d1", rating, clock)
           IN  /\ feedback_data' = [feedback_data EXCEPT ![AL] = added]
               /\ feedback_file' = added
        /\ UNCHANGED <<corrections_db, corrections_file, clock, io_vars, aux_vars>>

\* process_feedback with a payload holding the 'document_type' key
submit_document_type_feedback ==
    \E actual_type \in DocTypes :
        /\ TotalRecords(feedback_data[AL]) < MaxFeedback
        /\ LET added == add_document_type_feedback(feedback_data[AL], "d1",
                                                   "act", actual_type, clock)
           IN  /\ feedback_data' = [feedback_data EXCEPT ![AL] = added]
               /\ feedback_file' = added
        /\ UNCHANGED <<corrections_db, corrections_file, clock, io_vars, aux_vars>>

trigger_auto_update ==
    /\ LET r == _auto_update_corrections(feedback_data[AL], corrections_db[AL], clock)
       IN  /\ feedback_data' = [feedback_data EXCEPT ![AL] = r.fd]
           /\ feedback_file' = IF r.feedback_saved THEN r.fd ELSE feedback_file
           /\ corrections_db' = [corrections_db EXCEPT ![AL] = r.db]
           /\ corrections_file' = IF r.dict_saved THEN r.db ELSE corrections_file
    /\ UNCHANGED <<clock, io_vars, aux_vars>>

\* corrector.add_correction(original, corrected) on the corrector object of
\* api.routes: the in-memory dictionary, and the file when the guard holds
learn(original, corrected) ==
    LET db == add_correction(corrections_db["routes"], original, corrected)
    IN  /\ corrections_db' = [corrections_db EXCEPT !["routes"] = db]
        /\ corrections_file' = IF learn_saves(original, corrected) THEN db ELSE corrections_file

\* the operator confirm path
confirm_correction ==
    \E original \in ConfirmOriginals, corrected \in ConfirmCorrected, add_to_db \in BOOLEAN :
        /\ IF add_to_db THEN learn(original, corrected)
                        ELSE UNCHANGED <<corrections_db, corrections_file>>
        /\ UNCHANGED <<feedback_data, feedback_file, clock, io_vars, aux_vars>>

\* what GET /corrections_db returns
get_corrections_result == corrections_db["routes"]

get_corrections ==
    /\ UNCHANGED <<corrections_db, corrections_file, feedback_data, feedback_file, clock, io_vars, aux_vars>>

\* step 6.5 of DocumentPipeline.process: every applied correction goes to the
\* pipeline's own collector; document_id carries a fresh uuid
RECURSIVE capture_corrections(_, _, _)
capture_corrections(fd, corrections_applied, now) ==
    IF corrections_applied = <<>> THEN fd
    ELSE LET c == Head(corrections_applied)
         IN  capture_corrections(
                 add_correction_feedback(fd, c.from, c.to, "uuid", c.confidence, now),
                 Tail(corrections_applied), now)

\* recognized texts: one token each
Texts == {<<t>> : t \in Tokens}

\* DocumentPipeline.process on a file whose recognized text is raw_text
process(raw_text) ==
    LET res == correct_text(corrections_db["pipeline"], raw_text)
        fd == capture_corrections(feedback_data[PL], res.corrections, clock)
    IN  /\ TotalRecords(fd) <= MaxFeedback
        /\ feedback_data' = [feedback_data EXCEPT ![PL] = fd]
        /\ feedback_file' = IF res.corrections # <<>> THEN fd ELSE feedback_file
        /\ corrections_db' = [corrections_db EXCEPT !["pipeline"] = res.db]
        /\ UNCHANGED <<corrections_file, clock, io_vars, aux_vars>>

process_document == \E raw_text \in Texts : process(raw_text)

Next ==
    \/ Restart
    \/ Tick
    \/ submit_correction_feedback
    \/ submit_quality_feedback
    \/ submit_document_type_feedback
    \/ trigger_auto_update
    \/ confirm_correction
    \/ get_corrections
    \/ process_document

Spec == Init /\ [][Next]_vars

(***************************************************************************)
(* One save_corrections call at the grain of its file operations, next to   *)
(* another process (a second worker, or one of the scripts) that constructs *)
(* an AutoCorrectionSystem and so runs load_corrections on the same file.   *)
(* Spec takes each save as one step; SpecIO follows a save of the confirm   *)
(* path through open, buffered writes and close.                            *)
(***************************************************************************)
IOOriginals == {"a", "b"}
IOCorrected == {"b", "c"}

\* learn_from_mistake up to and including open(path, 'w'), which truncates
io_learn ==
    \E original \in IOOriginals, corrected \in IOCorrected :
        /\ save_pc = "idle"
        /\ corrections_db' = [corrections_db EXCEPT
                                 !["routes"] = learn_from_mistake(@, original, corrected)]
        /\ IF learn_saves(original, corrected)
           THEN /\ disk' = [content |-> corrections_db'["routes"], flushed |-> 0, closed |-> FALSE]
                /\ save_pc' = "dump"
           ELSE UNCHANGED <<disk, save_pc>>
        /\ UNCHANGED <<corrections_file, feedback_data, feedback_file, clock, loaded, aux_vars>>

\* json.dump: one more entry of the mapping reaches the disk
io_flush ==
    /\ save_pc = "dump"
    /\ disk.flushed < Cardinality(DOMAIN disk.content)
    /\ disk' = [disk EXCEPT !.flushed = @ + 1]
    /\ UNCHANGED <<corrections_db, corrections_file, feedback_data, feedback_file, clock,
                   save_pc, loaded, aux_vars>>

\* the with block ends: the rest is written and the file closed
io_close ==
    /\ save_pc = "dump"
    /\ disk' = WholeFile(disk.content)
    /\ corrections_file' = disk.content
    /\ save_pc' = "idle"
    /\ UNCHANGED <<corrections_db, feedback_data, feedback_file, clock, loaded, aux_vars>>

\* load_corrections on a file that exists: json.load of an incomplete dump
\* raises, the except branch returns {}
read_corrections(d) == IF d.closed THEN load_corrections(d.content) ELSE EmptyDict

\* the other process loads; before and after are the dictionary the file held
\* before the save in progress and the one the save is writing
io_load ==
    /\ loaded' = [done |-> TRUE, result |-> read_corrections(disk),
                  before |-> corrections_file, after |-> disk.content]
    /\ UNCHANGED <<corrections_db, corrections_file, feedback_data, feedback_file, clock,
                   disk, save_pc, aux_vars>>

NextIO == io_learn \/ io_flush \/ io_close \/ io_load

SpecIO == Init /\ [][NextIO]_vars

(***************************************************************************)
(* QualityChecker.check_quality.  Scores are kept in thousandths and the   *)
(* composite in ten-thousandths, so that the weights 0.3 / 3, 0.5 and 0.2  *)
(* are whole numbers: 10000 * overall = (sharpness + contrast + brightness)*)
(* + 5 * ocr_confidence + 2 * (1000 - 100 * regions).                      *)
(***************************************************************************)
MaxRegions == 12
Scores == {0, 400, 1000}

\* everything but last_call as a fresh service has it
IdleService ==
    /\ corrections_file = default_corrections
    /\ corrections_db = [h \in CorrectorHandles |-> load_corrections(default_corrections)]
    /\ feedback_file = EmptyFeedback
    /\ feedback_data = [h \in CollectorHandles |-> _load_feedback(EmptyFeedback)]
    /\ clock = 0
    /\ disk = WholeFile(default_corrections)
    /\ save_pc = "idle"
    /\ loaded = NoLoad
    /\ similarity_threshold = SIMILARITY_THRESHOLD
    /\ batch = NoBatch
    /\ phase1 = NoWord

OnlyLastCall ==
    UNCHANGED <<corrections_db, corrections_file, feedback_data, feedback_file, clock,
                io_vars, similarity_threshold, batch, phase1>>

\* max(lo, min(hi, x))
Clamp(x, lo, hi) == IF x < lo THEN lo ELSE IF x > hi THEN hi ELSE x

\* _detect_issues: one issue for each sub-score below 0.5
_detect_issues(sharpness, contrast, brightness) ==
    (IF sharpness < 500 THEN 1 ELSE 0) + (IF contrast < 500 THEN 1 ELSE 0)
        + (IF brightness < 500 THEN 1 ELSE 0)

\* check_quality on the three image sub-scores, the OCR confidence and the
\* number of regions detect_handwritten_text returned
check_quality(sharpness, contrast, brightness, ocr_confidence, handwritten_areas) ==
    LET overall_quality ==
            Clamp((sharpness + contrast + brightness) + 5 * ocr_confidence
                      + 2 * (1000 - 100 * handwritten_areas), 0, 10000)
        all_issues == _detect_issues(sharpness, contrast, brightness) + handwritten_areas
    IN  [overall_quality |-> overall_quality,
         issues |-> all_issues,
         needs_review |-> (overall_quality < 7000 \/ all_issues > 0)]

InitQuality ==
    /\ IdleService
    /\ \E sharpness \in Scores, contrast \in Scores, brightness \in Scores,
          ocr_confidence \in Scores, handwritten_areas \in 0..MaxRegions :
           last_call = [op |-> "check_quality", status |-> "called",
                        sharpness |-> sharpness, contrast |-> contrast,
                        brightness |-> brightness, ocr_confidence |-> ocr_confidence,
                        handwritten_areas |-> handwritten_areas]

check_quality_return ==
    /\ last_call.op = "check_quality"
    /\ last_call.status = "called"
    /\ last_call' = [last_call EXCEPT !.status = "returned"] @@
                    [quality_report |->
                        check_quality(last_call.sharpness, last_call.contrast,
                                      last_call.brightness, last_call.ocr_confidence,
                                      last_call.handwritten_areas)]
    /\ OnlyLastCall

NextQuality == check_quality_return

SpecQuality == InitQuality /\ [][NextQuality]_vars

(***************************************************************************)
(* FieldValidator.  A text is a sequence of items: numerals, given by the  *)
(* number of their digits, and surnames followed by initials.  Of the ten  *)
(* PATTERNS the model keeps inn (10 to 12 digits found, 10 or 12 valid),   *)
(* kpp (9 digits) and surname; the other seven are found or missed and     *)
(* validated by the same code.  A value is a numeral, a bare surname (what *)
(* find_field returns: the lookahead of the pattern is not part of the     *)
(* match), a surname with its initials, or the empty string.               *)
(***************************************************************************)
MaxDigits == 13
MaxItems == 2
PATTERNS == {"inn", "kpp", "surname"}
FieldNames == PATTERNS \cup {"serial"}

Numeral(n) == [kind |-> "numeral", digits |-> n]
SurnameItem == [kind |-> "surname_initials", digits |-> 0]
BareSurname == [kind |-> "surname", digits |-> 0]
EmptyValue == [kind |-> "empty", digits |-> 0]

\* PATTERNS[field_name]['validation'] on a value
validation(field_name, value) ==
    CASE field_name = "inn" -> value.kind = "numeral" /\ value.digits \in {10, 12}
      [] field_name = "kpp" -> value.kind = "numeral" /\ value.digits = 9
      [] field_name = "surname" -> value.kind \in {"surname", "surname_initials"}
      [] OTHER -> FALSE

\* compiled_patterns[field_name].search(value): \b stands at the two ends of
\* a numeral; the surname pattern needs the initials after the word
matches_pattern(field_name, value) ==
    CASE field_name = "inn" -> value.kind = "numeral" /\ value.digits \in 10..12
      [] field_name = "kpp" -> value.kind = "numeral" /\ value.digits = 9
      [] field_name = "surname" -> value.kind = "surname_initials"
      [] OTHER -> FALSE

\* what findall returns for an item of the text that the pattern matches
MatchOf(field_name, item) ==
    IF field_name = "surname" THEN BareSurname ELSE item

\* find_field: the matches in text order, each with 0.9 or 0.5
RECURSIVE find_field(_, _)
find_field(field_name, text) ==
    IF field_name \notin PATTERNS \/ text = <<>> THEN <<>>
    ELSE (IF matches_pattern(field_name, Head(text))
          THEN <<[value |-> MatchOf(field_name, Head(text)),
                  confidence |-> IF validation(field_name, MatchOf(field_name, Head(text)))
                                 THEN 9 ELSE 5]>>
          ELSE <<>>)
         \o find_field(field_name, Tail(text))

\* a validate_field that trusts the pattern alone
validate_field_by_pattern(field_name, value) ==
    IF field_name \notin PATTERNS
    THEN [field_name |-> field_name, value |-> value, valid |-> FALSE, confidence |-> 0]
    ELSE [field_name |-> field_name, value |-> value,
          valid |-> matches_pattern(field_name, value),
          confidence |-> IF matches_pattern(field_name, value) THEN 9 ELSE 5]

validate_field(field_name, value) ==
    IF field_name \notin PATTERNS
    THEN [field_name |-> field_name, value |-> value, valid |-> FALSE, confidence |-> 0]
    ELSE LET valid == validation(field_name, value) /\ matches_pattern(field_name, value)
         IN  [field_name |-> field_name, value |-> value, valid |-> valid,
              confidence |-> IF valid THEN 9 ELSE 5]

\* max(found_values, key=confidence): the first of the best
BestOf(found_values) ==
    LET i == CHOOSE k \in 1..Len(found_values) :
                 /\ \A j \in 1..Len(found_values) :
                        found_values[j].confidence <= found_values[k].confidence
                 /\ \A j \in 1..(k - 1) :
                        found_values[j].confidence < found_values[k].confidence
    IN  found_values[i]

\* required_fields: None, or a list of names; an empty list counts as None
NoFields == [given |-> FALSE, names |-> {}]
FieldsToCheck(required_fields) ==
    IF required_fields.given /\ required_fields.names # {}
    THEN required_fields.names ELSE PATTERNS

validate_critical_fields(text, required_fields) ==
    [field_name \in FieldsToCheck(required_fields) |->
        LET found_values == find_field(field_name, text)
        IN  IF found_values # <<>>
            THEN [validate_field(field_name, BestOf(found_values).value)
                      EXCEPT !.confidence = BestOf(found_values).confidence]
            ELSE [field_name |-> field_name, value |-> EmptyValue,
                  valid |-> FALSE, confidence |-> 0]]

\* a flag that looks at the quality report only
needs_review_quality_only(quality_report, validation_results) ==
    quality_report.needs_review

\* the needs_review entry of the result dictionary
needs_review(quality_report, validation_results) ==
    \/ quality_report.needs_review
    \/ \E field_name \in DOMAIN validation_results : ~validation_results[field_name].valid

ValidateTexts == UNION {[1..n -> {Numeral(9), Numeral(10), Numeral(11), Numeral(12), SurnameItem}] :
                            n \in 0..MaxItems}
ValidateValues == {Numeral(n) : n \in 1..MaxDigits} \cup {SurnameItem, BareSurname, EmptyValue}
RequiredChoices ==
    {NoFields} \cup {[given |-> TRUE, names |-> names] : names \in SUBSET FieldNames}
QualityReports == {check_quality(1000, 1000, 1000, 1000, 0), check_quality(400, 1000, 1000, 1000, 0)}

\* a validate_field call, or steps 4 to 6 of process on a corrected text
InitValidate ==
    /\ IdleService
    /\ \/ \E field_name \in FieldNames, value \in ValidateValues :
              last_call = [op |-> "validate_field", status |-> "called",
                           field_name |-> field_name, value |-> value]
       \/ \E text \in ValidateTexts, required_fields \in RequiredChoices,
             quality_report \in QualityReports :
              last_call = [op |-> "process", status |-> "called", text |-> text,
                           required_fields |-> required_fields,
                           quality_report |-> quality_report]

validate_field_return ==
    /\ last_call.op = "validate_field"
    /\ last_call.status = "called"
    /\ last_call' = [last_call EXCEPT !.status = "returned"] @@
                    [result |-> validate_field(last_call.field_name, last_call.value)]
    /\ OnlyLastCall

\* steps 4 to 6 of process: validation, then the result with its flag
assemble_result ==
    /\ last_call.op = "process"
    /\ last_call.status = "called"
    /\ LET validation_results ==
               validate_critical_fields(last_call.text, last_call.required_fields)
       IN  last_call' = [last_call EXCEPT !.status = "returned"] @@
                        [critical_fields |-> validation_results,
                         needs_review |-> needs_review(last_call.quality_report,
                                                       validation_results)]
    /\ OnlyLastCall

NextValidate == validate_field_return \/ assemble_result

SpecValidate == InitValidate /\ [][NextValidate]_vars

(***************************************************************************)
(* DocumentPipeline.process on files, and batch_process.  A file is its    *)
(* path, its extension, what loading and recognizing each page gives, and  *)
(* whether the quality report asks for a review.  The texts of the files   *)
(* hold none of the validated fields.                                      *)
(* A page that cannot be loaded has load_ok FALSE; a page the recognition  *)
(* service returns nothing for has the empty text.                         *)
(***************************************************************************)
MaxBatch == 2
secondary_cutoff == 8
Thresholds == {60, SIMILARITY_THRESHOLD}

Page(load_ok, text) == [load_ok |-> load_ok, text |-> text]

Files ==
    { [path |-> "exact.png", ext |-> "png", pages |-> <<Page(TRUE, <<"I">>)>>, review |-> TRUE],
      [path |-> "near.png", ext |-> "png", pages |-> <<Page(TRUE, <<"I1">>)>>, review |-> TRUE],
      [path |-> "clean.png", ext |-> "png", pages |-> <<Page(TRUE, <<"I1">>)>>, review |-> FALSE],
      [path |-> "blank.png", ext |-> "png", pages |-> <<Page(TRUE, <<>>)>>, review |-> TRUE],
      [path |-> "broken.png", ext |-> "png", pages |-> <<Page(FALSE, <<>>)>>, review |-> TRUE],
      [path |-> "notes.txt", ext |-> "txt", pages |-> <<>>, review |-> TRUE],
      [path |-> "two.pdf", ext |-> "pdf",
       pages |-> <<Page(TRUE, <<"I">>), Page(TRUE, <<"I1">>)>>, review |-> TRUE],
      [path |-> "torn.pdf", ext |-> "pdf",
       pages |-> <<Page(TRUE, <<"I1">>), Page(FALSE, <<>>)>>, review |-> TRUE],
      [path |-> "broken.pdf", ext |-> "pdf", pages |-> <<Page(FALSE, <<>>)>>, review |-> TRUE] }

\* OCREngine.load_image raises ValueError for an extension it does not know
\* and for a file or page it cannot open
load_image_raises(f, page) ==
    \/ f.ext \notin {"png", "pdf"}
    \/ page > Len(f.pages)
    \/ ~f.pages[page].load_ok

\* OCREngine.process_file_all_pages: a page whose processing raises is logged
\* and left out, the loop goes on with the next page
process_file_all_pages(f) == SelectSeq(f.pages, LAMBDA p : p.load_ok)

\* the page texts joined by the page separator, which holds no word
RECURSIVE join_texts(_)
join_texts(page_results) ==
    IF page_results = <<>> THEN <<>>
    ELSE Head(page_results).text \o join_texts(Tail(page_results))

\* steps 1 to 3 of process: the recognized text, or the exception of
\* load_image.  extract_text_vision never raises: an empty recognition is
\* the text '' with confidence 0.0
recognize(f) ==
    IF f.ext = "pdf"
    THEN [raised |-> load_image_raises(f, 1),
          raw_text |-> join_texts(process_file_all_pages(f)),
          total_pages |-> Len(process_file_all_pages(f))]
    ELSE IF load_image_raises(f, 1)
         THEN [raised |-> TRUE, raw_text |-> <<>>, total_pages |-> 0]
         ELSE [raised |-> FALSE, raw_text |-> f.pages[1].text, total_pages |-> 1]

\* steps 3 to 6 of process: the result dictionary, without document_id and
\* processing_date, which differ from one call to the next by construction;
\* batch_process passes no required_fields, so every field is validated
process_result(f, db) ==
    LET ocr_result == recognize(f)
        res == correct_text(db, ocr_result.raw_text)
        validation_results == validate_critical_fields(<<>>, NoFields)
    IN  [file_path |-> f.path, file_type |-> f.ext,
         raw_text |-> ocr_result.raw_text, full_text |-> res.text,
         total_pages |-> ocr_result.total_pages,
         corrections_applied |-> res.corrections,
         needs_review |-> needs_review([needs_review |-> f.review], validation_results),
         new_corrections_suggested |-> <<>>]

\* a capture loop whose exception leaves process
capture_feedback_unguarded(fd, corrections_applied, now, enabled, fault_at) ==
    IF ~enabled THEN [fd |-> fd, raised |-> FALSE]
    ELSE IF fault_at \in 1..Len(corrections_applied)
         THEN [fd |-> capture_corrections(fd, SubSeq(corrections_applied, 1, fault_at - 1), now),
               raised |-> TRUE]
         ELSE [fd |-> capture_corrections(fd, corrections_applied, now), raised |-> FALSE]

\* step 6.5 of process: the loop over corrections_applied inside its
\* try/except; the call to add_correction_feedback number fault_at raises
\* (0: none does), the records added before it stay, the exception is logged
capture_feedback(fd, corrections_applied, now, enabled, fault_at) ==
    IF ~enabled THEN [fd |-> fd, raised |-> FALSE]
    ELSE IF fault_at \in 1..Len(corrections_applied)
         THEN [fd |-> capture_corrections(fd, SubSeq(corrections_applied, 1, fault_at - 1), now),
               raised |-> FALSE]
         ELSE [fd |-> capture_corrections(fd, corrections_applied, now), raised |-> FALSE]

\* one call of process on a file: what it returns or that it raises, and the
\* pipeline's collector after it
process_file(f, db, fd, now, enabled, fault_at) ==
    IF recognize(f).raised
    THEN [raised |-> TRUE, fd |-> fd]
    ELSE LET result == process_result(f, db)
             captured == capture_feedback(fd, result.corrections_applied, now, enabled, fault_at)
         IN  [raised |-> captured.raised, result |-> result, fd |-> captured.fd]

\* the entry batch_process keeps for a file: the result of process, or the
\* error entry of the except branch
ErrorEntry(file_path) == [file_path |-> file_path, error |-> TRUE, success |-> FALSE]

\* a batch that keeps no entry for a file whose processing raised
append_result_dropping(results, f, call) ==
    IF call.raised THEN results ELSE Append(results, call.result)

append_result(results, f, call) ==
    IF call.raised THEN Append(results, ErrorEntry(f.path)) ELSE Append(results, call.result)

IsError(entry) == "error" \in DOMAIN entry

\* a collection that takes every correction of a reviewed result, whatever
\* its confidence
collect_unknown_errors_uncut(f, call) ==
    IF call.raised \/ ~call.result.needs_review THEN <<>>
    ELSE call.result.corrections_applied

\* the corrections of one result that batch_process collects
collect_unknown_errors(f, call) ==
    IF call.raised \/ ~call.result.needs_review THEN <<>>
    ELSE SelectSeq(call.result.corrections_applied,
                   LAMBDA c : c.confidence < secondary_cutoff)

\* error_groups: the originals in the order of their first appearance
RECURSIVE group_order(_, _)
group_order(unknown_errors, seen) ==
    IF unknown_errors = <<>> THEN <<>>
    ELSE IF Head(unknown_errors).from \in seen
         THEN group_order(Tail(unknown_errors), seen)
         ELSE <<Head(unknown_errors).from>>
                  \o group_order(Tail(unknown_errors), seen \cup {Head(unknown_errors).from})

replacements_of(unknown_errors, original) ==
    SelectSeq(unknown_errors, LAMBDA c : c.from = original)

RECURSIVE suggest_groups(_, _)
suggest_groups(unknown_errors, originals) ==
    IF originals = <<>> THEN <<>>
    ELSE LET corrections == replacements_of(unknown_errors, Head(originals))
         IN  (IF Cardinality({corrections[i].to : i \in 1..Len(corrections)}) = 1
              THEN <<[from |-> Head(originals), to |-> corrections[1].to,
                      confidence |-> 7, occurrences |-> Len(corrections)]>>
              ELSE <<>>)
             \o suggest_groups(unknown_errors, Tail(originals))

new_suggestions(unknown_errors) ==
    suggest_groups(unknown_errors, group_order(unknown_errors, {}))

\* what batch_process returns
batch_summary(results, unknown_errors) ==
    [documents |-> results,
     new_corrections_suggested |-> new_suggestions(unknown_errors),
     needs_human_review |-> Len(new_suggestions(unknown_errors)) > 0,
     total_processed |-> Len(results),
     successful |-> Len(SelectSeq(results, LAMBDA r : IF "success" \in DOMAIN r
                                                       THEN r.success ELSE TRUE))]

BatchInputs == UNION {[1..n -> Files] : n \in 0..MaxBatch}

\* a batch_process call about to start on a fresh service; the threshold is
\* the SIMILARITY_THRESHOLD setting, which the environment can override, and
\* use_active_learning is off when the learning system failed to start
InitBatch ==
    /\ corrections_file = default_corrections
    /\ corrections_db = [h \in CorrectorHandles |-> load_corrections(default_corrections)]
    /\ feedback_file = EmptyFeedback
    /\ feedback_data = [h \in CollectorHandles |-> _load_feedback(EmptyFeedback)]
    /\ clock = 0
    /\ disk = WholeFile(default_corrections)
    /\ save_pc = "idle"
    /\ loaded = NoLoad
    /\ similarity_threshold \in Thresholds
    /\ \E file_paths \in BatchInputs, enabled \in BOOLEAN :
           batch = [status |-> "running", files |-> file_paths, pos |-> 1,
                    use_active_learning |-> enabled, results |-> <<>>,
                    unknown_errors |-> <<>>, faults |-> <<>>]
    /\ last_call = NoCall
    /\ phase1 = NoWord

\* one round of the loop of batch_process
batch_file ==
    /\ batch.status = "running"
    /\ batch.pos <= Len(batch.files)
    /\ LET f == batch.files[batch.pos]
           db == corrections_db["pipeline"]
       IN  \E fault_at \in 0..(IF recognize(f).raised THEN 0
                               ELSE Len(process_result(f, db).corrections_applied)) :
               LET call == process_file(f, db, feedback_data[PL], clock,
                                        batch.use_active_learning, fault_at)
               IN  /\ batch' = [batch EXCEPT
                                   !.pos = @ + 1,
                                   !.results = append_result(@, f, call),
                                   !.unknown_errors = @ \o collect_unknown_errors(f, call),
                                   !.faults = Append(@, fault_at)]
                   /\ feedback_data' = [feedback_data EXCEPT ![PL] = call.fd]
                   /\ feedback_file' = IF call.fd # feedback_data[PL] THEN call.fd
                                       ELSE feedback_file
    /\ UNCHANGED <<corrections_db, corrections_file, clock, io_vars, similarity_threshold,
                   last_call, phase1>>

\* the loop is over: grouping, suggestions and the returned dictionary
batch_return ==
    /\ batch.status = "running"
    /\ batch.pos > Len(batch.files)
    /\ batch' = [status |-> "done", files |-> batch.files, faults |-> batch.faults,
                 use_active_learning |-> batch.use_active_learning,
                 out |-> batch_summary(batch.results, batch.unknown_errors)]
    /\ UNCHANGED <<corrections_db, corrections_file, feedback_data, feedback_file, clock,
                   io_vars, similarity_threshold, last_call, phase1>>

NextBatch == batch_file \/ batch_return

SpecBatch == InitBatch /\ [][NextBatch]_vars

(***************************************************************************)
(* Calls whose write to disk fails.  save_corrections makes the data       *)
(* directory, opens the file and dumps; _save_feedback opens and dumps.    *)
(* A fault names the step that raises.  corrections_file and feedback_file *)
(* keep the last content written whole; a dump that fails leaves disk with *)
(* an opened, truncated file.                                              *)
(***************************************************************************)
SaveCorrectionsFaults == {"none", "makedirs", "open", "dump"}
SaveFeedbackFaults == {"none", "open", "dump"}

\* save_corrections: os.makedirs stands before the try, open and json.dump
\* stand inside it
save_corrections_raises(fault) == fault = "makedirs"

\* _save_feedback: the whole body stands inside the try
_save_feedback_raises(fault) == FALSE

\* how a call ended: whether it raised, the fault it met, and the in-memory
\* dictionary and store the same call leaves when every write succeeds
CallOutcome(op, fault, raised, db, fd) ==
    [op |-> op, fault |-> fault, raised |-> raised, db |-> db, fd |-> fd]

\* learn_from_mistake (through add_correction of the confirm endpoint) with a
\* fault in its save_corrections
learn_fault ==
    \E original \in ConfirmOriginals, corrected \in ConfirmCorrected,
       fault \in SaveCorrectionsFaults :
        LET db == learn_from_mistake(corrections_db["routes"], original, corrected)
            saves == learn_saves(original, corrected)
        IN  /\ saves \/ fault = "none"
            /\ corrections_db' = [corrections_db EXCEPT !["routes"] = db]
            /\ corrections_file' = IF saves /\ fault = "none" THEN db ELSE corrections_file
            /\ disk' = IF ~saves \/ fault \in {"makedirs", "open"} THEN disk
                       ELSE IF fault = "dump" THEN [content |-> db, flushed |-> 0, closed |-> TRUE]
                       ELSE WholeFile(db)
            /\ last_call' = CallOutcome("learn", fault, saves /\ save_corrections_raises(fault),
                                        db, feedback_data[AL])
            /\ UNCHANGED <<feedback_data, feedback_file, clock, save_pc, loaded,
                           similarity_threshold, batch, phase1>>

\* a store call of the feedback controller, with a fault in its _save_feedback
store_fault(op, fd, fault) ==
    /\ TotalRecords(fd) <= MaxFeedback
    /\ feedback_data' = [feedback_data EXCEPT ![AL] = fd]
    /\ feedback_file' = IF fault = "none" THEN fd ELSE feedback_file
    /\ last_call' = CallOutcome(op, fault, _save_feedback_raises(fault),
                                corrections_db["routes"], fd)
    /\ UNCHANGED <<corrections_db, corrections_file, clock, io_vars,
                   similarity_threshold, batch, phase1>>

add_correction_feedback_fault ==
    \E original \in FeedbackOriginals, corrected \in ConfirmCorrected \ ConfirmOriginals,
       confidence \in Confidences \ {0}, fault \in SaveFeedbackFaults :
        store_fault("add_correction_feedback",
                    add_correction_feedback(feedback_data[AL], original, corrected,
                                            DocOf(Len(feedback_data[AL].corrections)),
                                            confidence, clock),
                    fault)

add_quality_rating_fault ==
    \E rating \in Ratings, fault \in SaveFeedbackFaults :
        store_fault("add_quality_rating",
                    add_quality_rating(feedback_data[AL], DocOf(0), rating, clock), fault)

add_document_type_feedback_fault ==
    \E predicted_type \in DocTypes, actual_type \in DocTypes, fault \in SaveFeedbackFaults :
        store_fault("add_document_type_feedback",
                    add_document_type_feedback(feedback_data[AL], DocOf(0), predicted_type,
                                               actual_type, clock),
                    fault)

\* mark_corrections_applied on the ids of the records held
mark_corrections_applied_fault ==
    \E fault \in SaveFeedbackFaults :
        /\ feedback_data[AL].corrections # <<>>
        /\ store_fault("mark_corrections_applied",
                       mark_corrections_applied(
                           feedback_data[AL],
                           [i \in 1..Len(feedback_data[AL].corrections) |->
                               feedback_data[AL].corrections[i].id],
                           clock),
                       fault)

NextFault ==
    \/ learn_fault
    \/ add_correction_feedback_fault
    \/ add_quality_rating_fault
    \/ add_document_type_feedback_fault
    \/ mark_corrections_applied_fault

SpecFault == Init /\ [][NextFault]_vars

(***************************************************************************)
(* Correction engine, phase 1: digits 0 and 8 inside Russian words become  *)
(* the letters they stand for.  A text is a sequence of characters; the    *)
(* Cyrillic letters are written by name: "be" and "BE" for a lower and an  *)
(* upper case letter, "o_cyr", "O_cyr", "ve_cyr", "V_cyr" for the letters  *)
(* the digits turn into.  "x" is a Latin letter and " " a separator.       *)
(***************************************************************************)
MaxText == 4
Digits == {"0", "8", "5"}
LowerCyrillic == {"be", "o_cyr", "ve_cyr"}
UpperCyrillic == {"BE", "O_cyr", "V_cyr"}
PhaseChars == Digits \cup {"be", "BE", "x", " "}
PhaseTexts == UNION {[1..n -> PhaseChars] : n \in 0..MaxText}

is_russian_char(char) == char \in LowerCyrillic \cup UpperCyrillic
is_russian_word(word) == \E i \in 1..Len(word) : is_russian_char(word[i])
isdigit(word) == word # <<>> /\ \A i \in 1..Len(word) : word[i] \in Digits

\* \w of the regular expressions, and the class of word_pattern: Cyrillic
\* letters and digits
IsWordChar(char) == char \in Digits \/ is_russian_char(char) \/ char = "x"
InWordPattern(char) == char \in Digits \/ is_russian_char(char)

replace_digit(char, use_uppercase) ==
    IF char = "0" THEN (IF use_uppercase THEN "O_cyr" ELSE "o_cyr")
    ELSE IF char = "8" THEN (IF use_uppercase THEN "V_cyr" ELSE "ve_cyr")
    ELSE char

\* the replacement callback without its test for a Russian, non-numeric word
replace_digits_unguarded(word) ==
    LET has_lowercase == \E i \in 1..Len(word) : word[i] \in LowerCyrillic
        use_uppercase == ~has_lowercase /\ \E i \in 1..Len(word) : word[i] \in UpperCyrillic
        new_word == [i \in 1..Len(word) |-> replace_digit(word[i], use_uppercase)]
    IN  IF (\E i \in 1..Len(word) : word[i] \in {"0", "8"}) /\ new_word # word
        THEN [word |-> new_word,
              corrections |-> <<[from |-> word, to |-> new_word, confidence |-> 9,
                                 method |-> "contextual_russian_word"]>>]
        ELSE [word |-> word, corrections |-> <<>>]

\* a replacement callback that takes the case most letters of the word have
replace_digits_majority(word) ==
    LET uppers == Cardinality({i \in 1..Len(word) : word[i] \in UpperCyrillic})
        lowers == Cardinality({i \in 1..Len(word) : word[i] \in LowerCyrillic})
        use_uppercase == uppers > lowers
        new_word == [i \in 1..Len(word) |-> replace_digit(word[i], use_uppercase)]
    IN  IF /\ is_russian_word(word)
           /\ ~isdigit(word)
           /\ \E i \in 1..Len(word) : word[i] \in {"0", "8"}
           /\ new_word # word
        THEN [word |-> new_word,
              corrections |-> <<[from |-> word, to |-> new_word, confidence |-> 9,
                                 method |-> "contextual_russian_word"]>>]
        ELSE [word |-> word, corrections |-> <<>>]

\* replace_digits_in_russian_word on one match; the confidence 0.95 is kept
\* in tenths, rounded down
replace_digits_in_russian_word(word) ==
    LET has_lowercase == \E i \in 1..Len(word) : word[i] \in LowerCyrillic
        use_uppercase == ~has_lowercase /\ \E i \in 1..Len(word) : word[i] \in UpperCyrillic
        new_word == [i \in 1..Len(word) |-> replace_digit(word[i], use_uppercase)]
    IN  IF /\ is_russian_word(word)
           /\ ~isdigit(word)
           /\ \E i \in 1..Len(word) : word[i] \in {"0", "8"}
           /\ new_word # word
        THEN [word |-> new_word,
              corrections |-> <<[from |-> word, to |-> new_word, confidence |-> 9,
                                 method |-> "contextual_russian_word"]>>]
        ELSE [word |-> word, corrections |-> <<>>]

\* the length of the run of \w characters a text starts with
RECURSIVE WordRun(_)
WordRun(text) ==
    IF text = <<>> \/ ~IsWordChar(Head(text)) THEN 0 ELSE 1 + WordRun(Tail(text))

\* word_pattern.sub over the text: \b stands only at the two ends of a run
\* of \w characters, so word_pattern matches a run exactly when every
\* character of the run is in its class, and then matches the whole run
RECURSIVE restore_digits(_)
restore_digits(text) ==
    IF text = <<>> THEN [text |-> <<>>, corrections |-> <<>>]
    ELSE IF WordRun(text) = 0
         THEN LET rest == restore_digits(Tail(text))
              IN  [text |-> <<Head(text)>> \o rest.text, corrections |-> rest.corrections]
         ELSE LET word == SubSeq(text, 1, WordRun(text))
                  rest == restore_digits(SubSeq(text, WordRun(text) + 1, Len(text)))
                  replaced == IF \A i \in 1..Len(word) : InWordPattern(word[i])
                              THEN replace_digits_in_russian_word(word)
                              ELSE [word |-> word, corrections |-> <<>>]
              IN  [text |-> replaced.word \o rest.text,
                   corrections |-> replaced.corrections \o rest.corrections]

\* a text about to enter correct_text on a fresh service
InitPhase1 ==
    /\ corrections_file = default_corrections
    /\ corrections_db = [h \in CorrectorHandles |-> load_corrections(default_corrections)]
    /\ feedback_file = EmptyFeedback
    /\ feedback_data = [h \in CollectorHandles |-> _load_feedback(EmptyFeedback)]
    /\ clock = 0
    /\ disk = WholeFile(default_corrections)
    /\ save_pc = "idle"
    /\ loaded = NoLoad
    /\ similarity_threshold = SIMILARITY_THRESHOLD
    /\ batch = NoBatch
    /\ last_call = NoCall
    /\ \E text \in PhaseTexts : phase1 = [status |-> "input", text |-> text]

\* the first step of correct_text
restore_step ==
    /\ phase1.status = "input"
    /\ phase1' = [status |-> "restored", text |-> phase1.text,
                  corrected_text |-> restore_digits(phase1.text).text,
                  corrections_applied |-> restore_digits(phase1.text).corrections]
    /\ UNCHANGED <<corrections_db, corrections_file, feedback_data, feedback_file, clock,
                   io_vars, similarity_threshold, batch, last_call>>

NextPhase1 == restore_step

SpecPhase1 == InitPhase1 /\ [][NextPhase1]_vars

(***************************************************************************)
(* correct_text, phase 2, on texts of several words and on dictionaries    *)
(* that hold learned entries next to the default ones: what the pipeline's *)
(* corrector holds when it starts after confirmations and promotions.      *)
(***************************************************************************)
MaxWords == 2
CorrectWords == {"a", "b", "c"}
CorrectTexts == UNION {[1..n -> CorrectWords] : n \in 0..MaxWords}

\* the entries learn_from_mistake can have added: never a word for itself
LearnedEntries ==
    {e \in UNION {[K -> CorrectWords] : K \in SUBSET {"a", "b"}} :
        \A k \in DOMAIN e : e[k] # k}

DictMerge(db, entries) ==
    [k \in (DOMAIN db) \cup (DOMAIN entries) |->
        IF k \in DOMAIN entries THEN entries[k] ELSE db[k]]

\* a text about to enter correct_text of a pipeline started on a dictionary
\* file with learned entries
InitCorrect ==
    /\ \E entries \in LearnedEntries :
           /\ corrections_file = DictMerge(default_corrections, entries)
           /\ corrections_db = [h \in CorrectorHandles |->
                                   load_corrections(DictMerge(default_corrections, entries))]
           /\ disk = WholeFile(DictMerge(default_corrections, entries))
    /\ feedback_file = EmptyFeedback
    /\ feedback_data = [h \in CollectorHandles |-> _load_feedback(EmptyFeedback)]
    /\ clock = 0
    /\ save_pc = "idle"
    /\ loaded = NoLoad
    /\ similarity_threshold = SIMILARITY_THRESHOLD
    /\ batch = NoBatch
    /\ phase1 = NoWord
    /\ \E text \in CorrectTexts :
           last_call = [op |-> "correct_text", status |-> "called", text |-> text]

\* correct_text runs on the pipeline's corrector and returns
correct_return ==
    /\ last_call.op = "correct_text"
    /\ last_call.status = "called"
    /\ LET res == correct_text(corrections_db["pipeline"], last_call.text)
       IN  /\ last_call' = [op |-> "correct_text", status |-> "returned",
                            text |-> last_call.text, corrected_text |-> res.text,
                            corrections_applied |-> res.corrections]
           /\ corrections_db' = [corrections_db EXCEPT !["pipeline"] = res.db]
    /\ UNCHANGED <<corrections_file, feedback_data, feedback_file, clock, io_vars,
                   similarity_threshold, batch, phase1>>

NextCorrect == correct_return

SpecCorrect == InitCorrect /\ [][NextCorrect]_vars

(***************************************************************************)
(* The active-learning controller started on files earlier runs left, as   *)
(* scripts/analyze_feedback.py starts it: the store holds Correction       *)
(* records of several pairs, applied or not, the dictionary holds learned  *)
(* entries; the script reads the candidates and runs the auto-update. The  *)
(* state after add_correction_feedback inside process_feedback is such a   *)
(* store too, so the auto-update of a submission is one of these calls.    *)
(* Confidence is in tenths.                                                *)
(***************************************************************************)
MaxRecords == 4         \* Correction records in the store at start
MaxCalls == 2           \* consecutive auto-update calls

\* what a stored record carries besides its id, document and time
StoredShapes ==
    {[original |-> "a", corrected |-> "b", confidence |-> 10, applied |-> FALSE],
     [original |-> "a", corrected |-> "b", confidence |-> 7, applied |-> FALSE],
     [original |-> "a", corrected |-> "b", confidence |-> 6, applied |-> FALSE],
     [original |-> "a", corrected |-> "c", confidence |-> 10, applied |-> FALSE],
     [original |-> "a", corrected |-> "a", confidence |-> 10, applied |-> FALSE],
     [original |-> "a", corrected |-> "b", confidence |-> 10, applied |-> TRUE],
     [original |-> "d", corrected |-> "b", confidence |-> 10, applied |-> FALSE]}

\* learned entries of the dictionary file at start
StoredEntries == {EmptyDict, [k \in {"a"} |-> "b"]}

\* thresholds callers pass to get_unapplied_corrections
MinConfidences == {0, min_confidence_for_auto_update}
MinOccurrences == {1, min_occurrences_for_auto_update}

\* the n-th record add_correction_feedback appended (second 0)
stored_record(shape, n) ==
    [id |-> <<"feedback", 0, n>>,
     original |-> shape.original, corrected |-> shape.corrected,
     document_id |-> DocOf(n), confidence |-> shape.confidence,
     timestamp |-> 0, applied |-> shape.applied]

stored_feedback(shapes) ==
    [corrections |-> [i \in 1..Len(shapes) |-> stored_record(shapes[i], i - 1)],
     document_types |-> <<>>, quality_ratings |-> <<>>,
     statistics |-> [total_feedback |-> Len(shapes), corrections_count |-> Len(shapes)]]

InitAuto ==
    /\ \E entries \in StoredEntries :
           /\ corrections_file = DictMerge(default_corrections, entries)
           /\ corrections_db = [h \in CorrectorHandles |->
                                   load_corrections(DictMerge(default_corrections, entries))]
           /\ disk = WholeFile(DictMerge(default_corrections, entries))
    /\ \E n \in 0..MaxRecords : \E shapes \in [1..n -> StoredShapes] :
           /\ feedback_file = stored_feedback(shapes)
           /\ feedback_data = [h \in CollectorHandles |->
                                  _load_feedback(stored_feedback(shapes))]
    /\ clock = 0
    /\ save_pc = "idle"
    /\ loaded = NoLoad
    /\ similarity_threshold = SIMILARITY_THRESHOLD
    /\ batch = NoBatch
    /\ phase1 = NoWord
    /\ last_call = NoCall

\* feedback_collector.get_unapplied_corrections(min_confidence, min_occurrences)
\* on the controller's collector, before any auto-update
get_unapplied_corrections_return ==
    /\ last_call = NoCall
    /\ \E min_confidence \in MinConfidences, min_occurrences \in MinOccurrences :
           last_call' = [op |-> "get_unapplied_corrections", status |-> "returned",
                         min_confidence |-> min_confidence,
                         min_occurrences |-> min_occurrences,
                         candidates |-> get_unapplied_corrections(
                                            feedback_data[AL], min_confidence,
                                            min_occurrences)]
    /\ OnlyLastCall

\* auto-update calls made so far, one directly after the other
auto_update_calls ==
    IF last_call.op = "_auto_update_corrections" THEN last_call.calls ELSE 0

\* active_learning._auto_update_corrections() called from outside a submission
run_auto_update ==
    /\ auto_update_calls < MaxCalls
    /\ LET r == _auto_update_corrections(feedback_data[AL], corrections_db[AL], clock)
       IN  /\ feedback_data' = [feedback_data EXCEPT ![AL] = r.fd]
           /\ feedback_file' = IF r.feedback_saved THEN r.fd ELSE feedback_file
           /\ corrections_db' = [corrections_db EXCEPT ![AL] = r.db]
           /\ corrections_file' = IF r.dict_saved THEN r.db ELSE corrections_file
    /\ last_call' = [op |-> "_auto_update_corrections", calls |-> auto_update_calls + 1,
                     unapplied_before |->
                         {i \in 1..Len(feedback_data[AL].corrections) :
                             ~feedback_data[AL].corrections[i].applied},
                     keys_before |-> DOMAIN corrections_db[AL]]
    /\ UNCHANGED <<clock, io_vars, similarity_threshold, batch, phase1>>

NextAuto == get_unapplied_corrections_return \/ run_auto_update

SpecAuto == InitAuto /\ [][NextAuto]_vars

(***************************************************************************)
(* Properties.                                                             *)
(***************************************************************************)
\* a step in which _auto_update_corrections runs on the active-learning
\* controller of the feedback endpoints
\* (such a step touches neither the clock nor the pipeline's collector nor
\* another component's dictionary)
AutoUpdateStep ==
    /\ clock' = clock
    /\ feedback_data'[PL] = feedback_data[PL]
    /\ \A h \in CorrectorHandles \ {AL} : corrections_db'[h] = corrections_db[h]
    /\ (submit_correction_feedback \/ trigger_auto_update)

\* In an AutoUpdateStep the controller's list after the step holds, at the same
\* positions, the records the call saw: record i was unapplied when the call
\* ran iff it was appended by this step or was unapplied before it
UnappliedAtCall(i) ==
    \/ i > Len(feedback_data[AL].corrections)
    \/ ~feedback_data[AL].corrections[i].applied

\* positions of the records unapplied at the call that carry original k
PendingFor(k) ==
    {i \in 1..Len(feedback_data'[AL].corrections) :
        UnappliedAtCall(i) /\ feedback_data'[AL].corrections[i].original = k}

\* the keys whose entry the step put into the controller's dictionary
Promoted ==
    {k \in DOMAIN corrections_db'[AL] :
        k \notin DOMAIN corrections_db[AL] \/ corrections_db[AL][k] # corrections_db'[AL][k]}

\* C1: autoUpdate (defaults 2 and 0.7) inserts a pair only if at least
\* min_occurrences unapplied records with distinct ids carry exactly that pair
\* at the moment of the call; a pair with one unapplied record is not promoted.
C1_PromotionNeedsOccurrences ==
    [][AutoUpdateStep =>
        \A k \in Promoted :
            Cardinality({feedback_data'[AL].corrections[i].id :
                            i \in {j \in PendingFor(k) :
                                      feedback_data'[AL].corrections[j].corrected
                                          = corrections_db'[AL][k]}})
                >= min_occurrences_for_auto_update]_vars

\* a promotion has happened: "a" is in the controller's dictionary and two
\* records carrying that pair are applied
C1_Witness ==
    /\ "a" \in DOMAIN corrections_db[AL]
    /\ \E i, j \in 1..Len(feedback_data[AL].corrections) :
          /\ i # j
          /\ \A n \in {i, j} :
                /\ feedback_data[AL].corrections[n].applied
                /\ feedback_data[AL].corrections[n].original = "a"
                /\ feedback_data[AL].corrections[n].corrected = corrections_db[AL]["a"]

\* C2: autoUpdate never overwrites: every key that is in the dictionary before
\* an autoUpdate call maps to the same value after it, in the controller's
\* in-memory dictionary and in the persisted dictionary file, whichever entry
\* point added the key.
C2_AutoUpdateNeverOverwrites ==
    [][AutoUpdateStep =>
        /\ \A k \in DOMAIN corrections_db[AL] :
              k \in DOMAIN corrections_db'[AL] /\ corrections_db'[AL][k] = corrections_db[AL][k]
        /\ \A k \in DOMAIN corrections_file :
              k \in DOMAIN corrections_file' /\ corrections_file'[k] = corrections_file[k]]_vars

\* the records unapplied at the call that carry the pair (a, b) with
\* confidence >= 0.7
Agreeing(a, b) ==
    {i \in PendingFor(a) :
        /\ feedback_data'[AL].corrections[i].corrected = b
        /\ feedback_data'[AL].corrections[i].confidence >= min_confidence_for_auto_update}

TwoDocuments(S) ==
    \E i, j \in S : feedback_data'[AL].corrections[i].document_id
                        # feedback_data'[AL].corrections[j].document_id

ContainsEntry(db, a, b) == a \in DOMAIN db /\ db[a] = b

\* the pairs (original, corrected) carried by the controller's records
SubmittedPairs ==
    {<<feedback_data'[AL].corrections[i].original, feedback_data'[AL].corrections[i].corrected>> :
        i \in 1..Len(feedback_data'[AL].corrections)}

C4_PromotionVisible ==
    [][AutoUpdateStep =>
        \A k \in Promoted :
            /\ correct_text(corrections_db'["pipeline"], <<k>>).text = <<corrections_db'[AL][k]>>
            /\ ContainsEntry(corrections_db'["routes"], k, corrections_db'[AL][k])]_vars

\* C5: the dictionary only grows: a key once persisted in the dictionary file
\* is in the file after every later learn or promotion.
C5_FileOnlyGrows ==
    [][\A k \in DOMAIN corrections_file : k \in DOMAIN corrections_file']_vars

Range(s) == {s[i] : i \in 1..Len(s)}

\* r and q are the same record but for the applied flag
SameButApplied(r, q) == r = [q EXCEPT !.applied = r.applied]

\* C6: no lost feedback: every record whose add call returned, through the
\* pipeline's implicit capture or through a feedback endpoint, is in the
\* persisted store with unchanged content apart from its applied flag.
C6_NoLostFeedback ==
    \A h \in CollectorHandles :
        /\ \A r \in Range(feedback_data[h].corrections) :
              \E q \in Range(feedback_file.corrections) : SameButApplied(r, q)
        /\ Range(feedback_data[h].quality_ratings) \subseteq Range(feedback_file.quality_ratings)
        /\ Range(feedback_data[h].document_types) \subseteq Range(feedback_file.document_types)

\* r, applied, is not turned back into an unapplied record by the step from
\* the list before to the list after
StaysApplied(before, after) ==
    \A r \in Range(before) :
        r.applied => [r EXCEPT !.applied = FALSE] \notin Range(after)

\* C7: the applied flag flips exactly once: once a Correction record is applied,
\* in memory or in the persisted store, no later add, markApplied or autoUpdate
\* makes it unapplied again.
C7_AppliedStaysApplied ==
    [][(~Restart) =>
        /\ StaysApplied(feedback_file.corrections, feedback_file'.corrections)
        /\ \A h \in CollectorHandles :
              StaysApplied(feedback_data[h].corrections, feedback_data'[h].corrections)]_vars

\* every record held anywhere in the store: by either handle or in the file
AllRecords ==
    UNION {Range(fd.corrections) \cup Range(fd.quality_ratings) \cup Range(fd.document_types) :
              fd \in {feedback_data[h] : h \in CollectorHandles} \cup {feedback_file}}

Unflagged(r) == IF "applied" \in DOMAIN r THEN [r EXCEPT !.applied = FALSE] ELSE r

\* C8: every id returned by an add call differs from the id of every other
\* record of the store, also for calls within one second and calls made
\* through different store handles.
C8_IdsUnique ==
    \A r, q \in AllRecords : r.id = q.id => Unflagged(r) = Unflagged(q)

\* C10: starting from a dictionary without identity entry, no sequence of
\* learn calls leaves an entry whose key equals its value.
C10_NoIdentityEntry ==
    /\ \A h \in CorrectorHandles : \A k \in DOMAIN corrections_db[h] : corrections_db[h][k] # k
    /\ \A k \in DOMAIN corrections_file : corrections_file[k] # k

\* both entry points have called learn: the confirm path put b->c into its
\* dictionary, and autoUpdate went through learn(a, a) for the applied a->a
\* records without an entry for a
C10_Witness ==
    /\ ContainsEntry(corrections_db["routes"], "b", "c")
    /\ "a" \notin DOMAIN corrections_db[AL]
    /\ \E r \in Range(feedback_data[AL].corrections) :
          r.applied /\ r.original = "a" /\ r.corrected = "a"

\* C9: a load of the dictionary file that runs concurrently with a save
\* returns the complete dictionary from before the save or the complete one
\* after it, never a partial or empty one.
C9_LoadSeesWholeDictionary ==
    loaded.done => loaded.result \in {loaded.before, loaded.after}

\* C11: learn is idempotent: after learn(o, c), a second learn(o, c) leaves
\* the in-memory dictionary and the persisted dictionary as the first left them.
C11_LearnIdempotent ==
    [][\A o \in ConfirmOriginals, c \in ConfirmCorrected :
          (learn(o, c) /\ UNCHANGED <<feedback_data, feedback_file, clock, io_vars, aux_vars>>) =>
              LET db2 == add_correction(corrections_db'["routes"], o, c)
              IN  /\ db2 = corrections_db'["routes"]
                  /\ (IF learn_saves(o, c) THEN db2 ELSE corrections_file') = corrections_file']_vars

\* learn(b, c) has run on the confirm path: memory and file hold b->c, which a
\* repeated learn(b, c) meets as an existing entry
C11_Witness ==
    /\ ContainsEntry(corrections_db["routes"], "b", "c")
    /\ ContainsEntry(corrections_file, "b", "c")
    /\ "a" \notin DOMAIN corrections_file

SubmittedRecord == feedback_data'[AL].corrections[Len(feedback_data'[AL].corrections)]

\* the submission brings its pair up to the thresholds: with the new record the
\* unapplied records carrying the pair are at least min_occurrences and their
\* mean confidence is at least min_confidence
ReachesThresholds ==
    LET added == [feedback_data'[AL] EXCEPT !.corrections =
                     [i \in 1..Len(@) |-> IF UnappliedAtCall(i)
                                          THEN [@[i] EXCEPT !.applied = FALSE] ELSE @[i]]]
        c == candidate_of(added.corrections, <<SubmittedRecord.original, SubmittedRecord.corrected>>)
    IN  /\ c.occurrences >= min_occurrences_for_auto_update
        /\ c.total_confidence >= min_confidence_for_auto_update * c.occurrences

\* a step of the quality or the document-type endpoint
OtherFeedbackStep ==
    /\ clock' = clock
    /\ feedback_data'[PL] = feedback_data[PL]
    /\ (submit_quality_feedback \/ submit_document_type_feedback)

\* the part of C13 on payloads without a correction, on the controller's
\* dictionary, the dictionary file and the controller's Correction records
OtherFeedbackLeavesCorrections ==
    OtherFeedbackStep =>
        /\ corrections_db' = corrections_db
        /\ corrections_file' = corrections_file
        /\ feedback_data'[AL].corrections = feedback_data[AL].corrections

C14_RetryIdempotent ==
    [][\A t \in Texts :
          process(t) =>
              LET retry == correct_text(corrections_db'["pipeline"], t)
              IN  /\ retry.db = corrections_db'["pipeline"]
                  /\ capture_corrections(feedback_data'[PL], retry.corrections, clock')
                         = feedback_data'[PL]]_vars

\* the batch is over and its dictionary is returned
BatchDone == batch.status = "done"

\* the input errors of a file: it cannot be read or is of an unsupported
\* kind, the recognition gave no text, or one of its PDF pages failed
InputError(f) ==
    \/ load_image_raises(f, 1)
    \/ join_texts(process_file_all_pages(f)) = <<>>
    \/ \E p \in 1..Len(f.pages) : ~f.pages[p].load_ok

\* C15: every file with an input error (unreadable, unsupported, empty
\* recognition, a failed PDF page) has an error entry in the returned batch,
\* that is, process raised for it instead of returning a result
C15_InputErrorsSurface ==
    BatchDone =>
        \A i \in 1..Len(batch.files) :
            InputError(batch.files[i]) =>
                /\ i <= Len(batch.out.documents)
                /\ IsError(batch.out.documents[i])

\* C16: whenever process gets past recognition, what it returns is the result
\* built before the capture step, whether the capture is disabled, runs to
\* its end, or fails at any of its calls; a capture failure never turns the
\* call into an error
C16_CaptureBestEffort ==
    BatchDone =>
        \A i \in 1..Len(batch.files) :
            ~recognize(batch.files[i]).raised =>
                /\ i <= Len(batch.out.documents)
                /\ batch.out.documents[i]
                       = process_result(batch.files[i], corrections_db["pipeline"])

\* a returned batch in which the capture of a file with an applied correction
\* failed, and the file has its result with that correction
C16_Witness ==
    /\ BatchDone
    /\ batch.use_active_learning
    /\ \E i \in 1..Len(batch.files) :
           /\ batch.faults[i] > 0
           /\ ~IsError(batch.out.documents[i])
           /\ batch.out.documents[i].corrections_applied # <<>>

\* C17: the returned batch has one entry per input file in input order, an
\* error entry with success FALSE exactly for the files whose processing
\* raised, total_processed is the number of files and successful the number
\* of entries without an error
C17_BatchIsolatesFailures ==
    BatchDone =>
        LET documents == batch.out.documents
        IN  /\ Len(documents) = Len(batch.files)
            /\ \A i \in 1..Len(batch.files) :
                   /\ documents[i].file_path = batch.files[i].path
                   /\ IsError(documents[i]) <=> recognize(batch.files[i]).raised
                   /\ IsError(documents[i]) => documents[i].success = FALSE
            /\ batch.out.total_processed = Len(batch.files)
            /\ batch.out.successful
                   = Cardinality({i \in 1..Len(documents) : ~IsError(documents[i])})

\* a returned batch whose first file raised and whose second file has a result
C17_Witness ==
    /\ BatchDone
    /\ Len(batch.files) = 2
    /\ Len(batch.out.documents) = 2
    /\ IsError(batch.out.documents[1])
    /\ ~IsError(batch.out.documents[2])
    /\ batch.out.successful = 1

\* the originals a batch can meet
BatchOriginals == {"I", "I1"}

\* the applied corrections of the successfully processed files
ObservedCorrections ==
    LET documents == batch.out.documents
    IN  UNION {{documents[i].corrections_applied[j] :
                    j \in 1..Len(documents[i].corrections_applied)} :
               i \in {k \in 1..Len(documents) : ~IsError(documents[k])}}

Proposed(original) ==
    \E k \in 1..Len(batch.out.new_corrections_suggested) :
        batch.out.new_corrections_suggested[k].from = original

\* C18: an original is proposed exactly when a correction below the cutoff was
\* observed for it in a successfully processed file and all the replacements
\* observed for it are identical; it is proposed once, with that replacement
C18_ProposedIffLowConfidence ==
    BatchDone =>
        \A original \in BatchOriginals :
            LET proposals == {k \in 1..Len(batch.out.new_corrections_suggested) :
                                  batch.out.new_corrections_suggested[k].from = original}
            IN  /\ Proposed(original) <=>
                       /\ \E c \in ObservedCorrections :
                              c.from = original /\ c.confidence < secondary_cutoff
                       /\ Cardinality({c.to : c \in {x \in ObservedCorrections :
                                                         x.from = original}}) = 1
                /\ Cardinality(proposals) <= 1
                /\ \A k \in proposals :
                       \E c \in ObservedCorrections :
                           /\ c.from = original
                           /\ batch.out.new_corrections_suggested[k].to = c.to

\* a returned batch that proposes the original of a similarity match, next to
\* an exact match that is not proposed
C18_Witness ==
    /\ BatchDone
    /\ Proposed("I1")
    /\ ~Proposed("I")
    /\ batch.out.needs_human_review
    /\ \E c \in ObservedCorrections : c.from = "I"

\* C19: a call whose write failed has not raised, and the in-memory dictionary
\* and store are the ones the call leaves when the write succeeds
C19_WriteFailureKeepsCall ==
    (last_call.op # "none" /\ last_call.fault # "none") =>
        /\ ~last_call.raised
        /\ corrections_db["routes"] = last_call.db
        /\ feedback_data[AL] = last_call.fd

\* a token made only of digits: a run of digits of the text with no word
\* character before it and none after it
DigitToken(text, i, j) ==
    /\ i <= j
    /\ \A k \in i..j : text[k] \in Digits
    /\ i = 1 \/ ~IsWordChar(text[i - 1])
    /\ j = Len(text) \/ ~IsWordChar(text[j + 1])

\* C20: after the restoration step every token made only of digits stands in
\* the text where and as it stood, and no correction record is about a token
\* made only of digits
C20_NumericTokensUntouched ==
    phase1.status = "restored" =>
        /\ Len(phase1.corrected_text) = Len(phase1.text)
        /\ \A i, j \in 1..Len(phase1.text) :
               DigitToken(phase1.text, i, j) =>
                   /\ SubSeq(phase1.corrected_text, i, j) = SubSeq(phase1.text, i, j)
                   /\ \A k \in 1..Len(phase1.corrections_applied) :
                          phase1.corrections_applied[k].from # SubSeq(phase1.text, i, j)
        /\ \A k \in 1..Len(phase1.corrections_applied) :
               ~isdigit(phase1.corrections_applied[k].from)

\* a restored text that holds a numeric token with a digit 0 or 8 next to a
\* Russian word whose digit was turned into a letter
C20_Witness ==
    /\ phase1.status = "restored"
    /\ phase1.corrections_applied # <<>>
    /\ \E i, j \in 1..Len(phase1.text) :
           /\ DigitToken(phase1.text, i, j)
           /\ \E k \in i..j : phase1.text[k] \in {"0", "8"}

\* a token of the text that phase 1 restores: a whole run of word characters,
\* all of them Cyrillic letters or digits, with a letter and a digit 0 or 8
RestoredToken(text, i, j) ==
    /\ i <= j
    /\ \A k \in i..j : InWordPattern(text[k])
    /\ i = 1 \/ ~IsWordChar(text[i - 1])
    /\ j = Len(text) \/ ~IsWordChar(text[j + 1])
    /\ \E k \in i..j : is_russian_char(text[k])
    /\ \E k \in i..j : text[k] \in {"0", "8"}

UppersIn(text, i, j) == Cardinality({k \in i..j : text[k] \in UpperCyrillic})
LowersIn(text, i, j) == Cardinality({k \in i..j : text[k] \in LowerCyrillic})

\* the letters that stand where the token had its digits 0 and 8
SubstitutesIn(i, j) ==
    {phase1.corrected_text[k] : k \in {x \in i..j : phase1.text[x] \in {"0", "8"}}}

\* C21 as stated: the substitutes of a restored token are upper case when most
\* of its letters are upper case and lower case when most are lower case
C21_AsStated ==
    phase1.status = "restored" =>
        \A i, j \in 1..Len(phase1.text) :
            RestoredToken(phase1.text, i, j) =>
                /\ UppersIn(phase1.text, i, j) > LowersIn(phase1.text, i, j)
                       => SubstitutesIn(i, j) \subseteq UpperCyrillic
                /\ LowersIn(phase1.text, i, j) > UppersIn(phase1.text, i, j)
                       => SubstitutesIn(i, j) \subseteq LowerCyrillic

\* C21: the substitutes of a restored token are upper case exactly when the
\* token has no lower case letter, and lower case as soon as it has one
C21_UpperOnlyWithoutLowercase ==
    phase1.status = "restored" =>
        \A i, j \in 1..Len(phase1.text) :
            RestoredToken(phase1.text, i, j) =>
                /\ Len(phase1.corrected_text) = Len(phase1.text)
                /\ SubstitutesIn(i, j) # {}
                /\ LowersIn(phase1.text, i, j) = 0
                       => SubstitutesIn(i, j) \subseteq UpperCyrillic
                /\ LowersIn(phase1.text, i, j) > 0
                       => SubstitutesIn(i, j) \subseteq LowerCyrillic

\* a restored token with more upper case than lower case letters, and one
\* lower case letter, whose digit became a lower case letter
C21_Witness ==
    /\ phase1.status = "restored"
    /\ \E i, j \in 1..Len(phase1.text) :
           /\ RestoredToken(phase1.text, i, j)
           /\ UppersIn(phase1.text, i, j) > LowersIn(phase1.text, i, j)
           /\ LowersIn(phase1.text, i, j) > 0
           /\ SubstitutesIn(i, j) # {}
           /\ SubstitutesIn(i, j) \subseteq LowerCyrillic

\* C22: after a correct call every word of the text is either as it was or
\* the dictionary's replacement for it; no word is the replacement of a
\* replacement
C22_NoCascade ==
    (last_call.op = "correct_text" /\ last_call.status = "returned") =>
        /\ Len(last_call.corrected_text) = Len(last_call.text)
        /\ \A i \in 1..Len(last_call.text) :
               \/ last_call.corrected_text[i] = last_call.text[i]
               \/ /\ last_call.text[i] \in DOMAIN corrections_db["pipeline"]
                  /\ last_call.corrected_text[i]
                         = corrections_db["pipeline"][last_call.text[i]]

\* the smaller of two numbers
Min(a, b) == IF a < b THEN a ELSE b

\* C23: the overall quality is 0.3 * image quality + 0.5 * OCR confidence
\* + 0.2 * (1 - 0.1 * min(regions, 10)), clamped to [0, 1]
C23_CompositeCapsRegions ==
    (last_call.op = "check_quality" /\ last_call.status = "returned") =>
        last_call.quality_report.overall_quality
            = Clamp((last_call.sharpness + last_call.contrast + last_call.brightness)
                        + 5 * last_call.ocr_confidence
                        + 2 * (1000 - 100 * Min(last_call.handwritten_areas, 10)),
                    0, 10000)

\* the requested field has a match in the text
PresentIn(field_name, text) ==
    \E i \in 1..Len(text) :
        \/ field_name = "inn" /\ text[i].kind = "numeral" /\ text[i].digits \in 10..12
        \/ field_name = "kpp" /\ text[i].kind = "numeral" /\ text[i].digits = 9
        \/ field_name = "surname" /\ text[i].kind = "surname_initials"

\* C24: process returns with one result per field to check; the flag is the
\* quality report's flag or the presence of an invalid field, and a field
\* with no match in the text is invalid with confidence 0 and an empty value
C24_NeedsReviewIsQualityOrInvalid ==
    (last_call.op = "process" /\ last_call.status = "returned") =>
        /\ DOMAIN last_call.critical_fields = FieldsToCheck(last_call.required_fields)
        /\ last_call.needs_review
               <=> \/ last_call.quality_report.needs_review
                   \/ \E f \in FieldsToCheck(last_call.required_fields) :
                          ~last_call.critical_fields[f].valid
        /\ \A f \in FieldsToCheck(last_call.required_fields) :
               ~PresentIn(f, last_call.text) =>
                   /\ ~last_call.critical_fields[f].valid
                   /\ last_call.critical_fields[f].confidence = 0
                   /\ last_call.critical_fields[f].value = EmptyValue

\* a result whose quality report asks for nothing and whose flag is raised by
\* a requested field the text does not hold, next to a valid one
C24_Witness ==
    /\ last_call.op = "process"
    /\ last_call.status = "returned"
    /\ ~last_call.quality_report.needs_review
    /\ last_call.needs_review
    /\ \E f, g \in DOMAIN last_call.critical_fields :
           /\ ~PresentIn(f, last_call.text)
           /\ last_call.critical_fields[g].valid

\* C25: on a numeral, inn is valid exactly for 10 or 12 digits and kpp exactly
\* for 9 digits
C25_DigitCounts ==
    (/\ last_call.op = "validate_field"
     /\ last_call.status = "returned"
     /\ last_call.value.kind = "numeral") =>
        /\ last_call.field_name = "inn"
               => (last_call.result.valid <=> last_call.value.digits \in {10, 12})
        /\ last_call.field_name = "kpp"
               => (last_call.result.valid <=> last_call.value.digits = 9)

\* an 11-digit numeral, which the inn pattern finds, reported invalid for inn
C25_Witness ==
    /\ last_call.op = "validate_field"
    /\ last_call.status = "returned"
    /\ last_call.field_name = "inn"
    /\ last_call.value = Numeral(11)
    /\ ~last_call.result.valid

\* positions of the unapplied records of a store that carry the pair (a, b)
UnappliedWith(store, a, b) ==
    {i \in 1..Len(store) :
        ~store[i].applied /\ store[i].original = a /\ store[i].corrected = b}

RECURSIVE ConfidenceOver(_, _)
ConfidenceOver(store, S) ==
    IF S = {} THEN 0
    ELSE LET i == CHOOSE i \in S : TRUE
         IN  store[i].confidence + ConfidenceOver(store, S \ {i})

\* the unapplied records of (a, b) number at least min_occurrences and have
\* mean confidence at least min_confidence
Meets(store, a, b, min_confidence, min_occurrences) ==
    LET S == UnappliedWith(store, a, b)
    IN  /\ Cardinality(S) >= min_occurrences
        /\ ConfidenceOver(store, S) >= min_confidence * Cardinality(S)

PairsOf(store) == {<<store[i].original, store[i].corrected>> : i \in 1..Len(store)}

\* (occurrences, mean confidence) of x is greater than that of y; both are
\* given as [occurrences, total_confidence]
Outranks(x, y) ==
    \/ x.occurrences > y.occurrences
    \/ /\ x.occurrences = y.occurrences
       /\ x.total_confidence * y.occurrences > y.total_confidence * x.occurrences

\* C27: get_unapplied_corrections(min_confidence, min_occurrences) returns
\* exactly one candidate for each pair (original, corrected) whose unapplied
\* records number at least min_occurrences and have mean confidence at least
\* min_confidence, and none for any other pair; a candidate's occurrences,
\* confidence and feedback ids are those of exactly these unapplied records
\* (applied records are never counted); candidates are ordered by
\* (occurrences, avg_confidence) descending.
C27_CandidatesContract ==
    (last_call.op = "get_unapplied_corrections") =>
        LET store == feedback_data[AL].corrections
            cs == last_call.candidates
        IN  /\ \A p \in PairsOf(store) :
                   Cardinality({n \in 1..Len(cs) :
                                   cs[n].original = p[1] /\ cs[n].corrected = p[2]})
                     = IF Meets(store, p[1], p[2], last_call.min_confidence,
                                last_call.min_occurrences) THEN 1 ELSE 0
            /\ \A n \in 1..Len(cs) :
                   LET S == UnappliedWith(store, cs[n].original, cs[n].corrected)
                   IN  /\ <<cs[n].original, cs[n].corrected>> \in PairsOf(store)
                       /\ cs[n].occurrences = Cardinality(S)
                       /\ cs[n].total_confidence = ConfidenceOver(store, S)
                       /\ Len(cs[n].feedback_ids) = Cardinality(S)
                       /\ {cs[n].feedback_ids[j] : j \in 1..Len(cs[n].feedback_ids)}
                            = {store[i].id : i \in S}
            /\ \A m, n \in 1..Len(cs) : m < n => ~Outranks(cs[n], cs[m])

\* the candidates an auto-update call gets from the collector, in the order
\* it goes through them
CandidatesAtCall ==
    get_unapplied_corrections(feedback_data[AL], min_confidence_for_auto_update,
                              min_occurrences_for_auto_update)

\* the n-th candidate's original is a dictionary key when its turn comes:
\* it was one before the call, or an earlier candidate with the same original
\* and another replacement has been added
KeyAtTurn(n) ==
    LET cs == CandidatesAtCall
    IN  \/ cs[n].original \in DOMAIN corrections_db[AL]
        \/ \E m \in 1..(n - 1) : /\ cs[m].original = cs[n].original
                                 /\ cs[m].corrected # cs[m].original

\* the call put the n-th candidate into the dictionary
InsertedAtCall(n) ==
    LET cs == CandidatesAtCall
    IN  /\ cs[n].original \notin DOMAIN corrections_db[AL]
        /\ ContainsEntry(corrections_db'[AL], cs[n].original, cs[n].corrected)

\* the step changes nothing in the store but applied flags, and the flags
\* after the step are those before it plus those of the contributing
\* records of the candidates in Marked
MarksExactly(Marked) ==
    LET before == feedback_data[AL].corrections
        after == feedback_data'[AL].corrections
        cs == CandidatesAtCall
    IN  /\ Len(after) = Len(before)
        /\ \A i \in 1..Len(before) :
              /\ after[i] = [before[i] EXCEPT !.applied = after[i].applied]
              /\ after[i].applied <=>
                    \/ before[i].applied
                    \/ \E n \in Marked : InSeq(before[i].id, cs[n].feedback_ids)

C28_AutoUpdateIdempotent ==
    [][(run_auto_update /\ last_call.op = "_auto_update_corrections") =>
        /\ corrections_db'[AL] = corrections_db[AL]
        /\ feedback_data'[AL] = feedback_data[AL]
        /\ corrections_file' = corrections_file
        /\ feedback_file' = feedback_file]_vars

\* a second call has run directly after a first one that added a key and
\* marked records, and it found a candidate to skip
C28_Witness ==
    /\ last_call.op = "_auto_update_corrections"
    /\ last_call.calls = 2
    /\ DOMAIN corrections_db[AL] # DOMAIN default_corrections
    /\ DOMAIN corrections_db[AL] = last_call.keys_before
    /\ \E i \in 1..Len(feedback_data[AL].corrections) :
          /\ feedback_data[AL].corrections[i].applied
          /\ feedback_data[AL].corrections[i].original = "d"
    /\ CandidatesAtCall # <<>>

\* positions of the records the step marks applied
MarkedByStep ==
    {i \in 1..Len(feedback_data[AL].corrections) :
        /\ ~feedback_data[AL].corrections[i].applied
        /\ feedback_data'[AL].corrections[i].applied}

\* no key of the controller's dictionary is removed or given another value
KeysKept ==
    \A k \in DOMAIN corrections_db[AL] :
        ContainsEntry(corrections_db'[AL], k, corrections_db[AL][k])

\* C29 as stated: applied implies promoted: every Correction record that an
\* autoUpdate call marks applied has its original as a key of the
\* active-learning dictionary, mapped to the record's corrected value when it
\* is marked, and no later autoUpdate call removes or changes a key.
C29_AsStated ==
    [][run_auto_update =>
        /\ KeysKept
        /\ \A i \in MarkedByStep :
              LET r == feedback_data[AL].corrections[i]
              IN  ContainsEntry(corrections_db'[AL], r.original, r.corrected)]_vars

\* C29 amended: every Correction record with original # corrected that an
\* autoUpdate call marks applied has its original as a key of the
\* active-learning dictionary, mapped to the record's corrected value when it
\* is marked, and no later autoUpdate call removes or changes a key; a
\* record with original = corrected is marked applied with no entry for it.
C29_AppliedImpliesPromoted ==
    [][run_auto_update =>
        /\ KeysKept
        /\ \A i \in MarkedByStep :
              LET r == feedback_data[AL].corrections[i]
              IN  IF r.original # r.corrected
                  THEN ContainsEntry(corrections_db'[AL], r.original, r.corrected)
                  ELSE ~ContainsEntry(corrections_db'[AL], r.original, r.corrected)]_vars

\* two calls have run; the first marked records of a pair with original #
\* corrected, and the dictionary still maps the original to their corrected
\* value
C29_Witness ==
    /\ last_call.op = "_auto_update_corrections"
    /\ last_call.calls = 2
    /\ \E i \in 1..Len(feedback_data[AL].corrections) :
          LET r == feedback_data[AL].corrections[i]
          IN  /\ r.applied
              /\ r.original = "d"
              /\ r.original # r.corrected
              /\ ContainsEntry(corrections_db[AL], r.original, r.corrected)

\* the contributing records of the n-th candidate are unapplied after the step
StayUnapplied(n) ==
    \A i \in 1..Len(feedback_data[AL].corrections) :
        InSeq(feedback_data[AL].corrections[i].id, CandidatesAtCall[n].feedback_ids)
            => ~feedback_data'[AL].corrections[i].applied

\* of the candidates m and n, which share an original that is no key, the
\* call inserts exactly one, one the other does not outrank, and the other's
\* records stay unapplied
InsertsTheFirstRanked(m, n) ==
    LET cs == CandidatesAtCall
        inserted(x) == ContainsEntry(corrections_db'[AL], cs[x].original, cs[x].corrected)
    IN  /\ inserted(m) # inserted(n)
        /\ inserted(m) => (~Outranks(cs[n], cs[m]) /\ StayUnapplied(n))
        /\ inserted(n) => (~Outranks(cs[m], cs[n]) /\ StayUnapplied(m))

\* a candidate whose original is a key with another value is not inserted
\* and its records stay unapplied
LoserStaysOut ==
    LET cs == CandidatesAtCall
    IN  \A n \in 1..Len(cs) :
            ( /\ cs[n].original \in DOMAIN corrections_db[AL]
              /\ corrections_db[AL][cs[n].original] # cs[n].corrected ) =>
                /\ ~ContainsEntry(corrections_db'[AL], cs[n].original, cs[n].corrected)
                /\ StayUnapplied(n)

====
